---- MODULE Spec2Model ----
(***************************************************************************)
(* Warehouse stock ledger (inventory/models.py, serializers.py, views.py). *)
(* The persistent store holds three tables: products (prodmast),           *)
(* transactions (stckmain) and details (stckdetail).  Every operation of   *)
(* the program is one action; the model-layer hooks                        *)
(* StockTransactionDetail.save / delete are operators on a store value, so *)
(* that the writes made inside an atomic block before an exception, and    *)
(* their rollback, are part of what is computed.                           *)
(***************************************************************************)
EXTENDS Integers, Sequences, FiniteSets, TLC

\* ---------------------------------------------------------------- bounds
MaxProducts == 2
MaxTx == 2
MaxQty == 2
MaxStock == 2
MaxDeficit == 1
MaxRequests == 2
MaxConcLines == 1

\* ------------------------------------------------------------- constants
\* Product.current_stock = IntegerField(default=0)
DefaultStock == 0
\* pk of a model instance that is not yet in the store (Python None).  A
\* stored line is identified by its <<transaction, product>> pair, which
\* unique_together makes a key of the table.
None == <<>>

ProductIds == 1..MaxProducts
TxIds == 1..MaxTx
\* ids the store can hand out: one more than are ever kept, so that a
\* submission made when MaxTx transactions are stored still runs (and is
\* kept only if it fails and is rolled back)
TxIdSpace == 1..(MaxTx + 1)
DetailKeys == TxIds \X ProductIds
\* quantities a caller may submit; the serializer's PositiveIntegerField
\* lets 0 through to the model, whose clean() refuses it
Quantities == 0..MaxQty
MaxLines == MaxProducts
\* stock values explored; an operation that would leave the range is not taken
Stocks == (0 - MaxDeficit)..MaxStock
\* requests that may be in progress at the same time
Requests == 1..MaxRequests
TRANSACTION_TYPES == {"IN", "OUT"}
Codes == {"GRN-1", "DO-1"}

VARIABLES
    products,       \* table prodmast: id -> [current_stock]
    transactions,   \* table stckmain: id -> [transaction_code, transaction_type]
    details,        \* table stckdetail: set of [transaction, product, quantity]
    last,           \* the last operation called and how it ended (history)
    reqs            \* the POST /api/transactions/ requests in progress

vars == <<products, transactions, details, last, reqs>>

Tables == <<products, transactions, details>>

\* The store as one value, so that an atomic block can be rolled back.
Store == [products |-> products, transactions |-> transactions, details |-> details]

\* ----------------------------------------------------------- store helpers
Min(S) == CHOOSE i \in S : \A j \in S : i <= j

\* AutoField primary key: an id no row of the table holds
FreshId(ids, used) == Min(ids \ used)

Insert(table, pk, row) ==
    [i \in DOMAIN table \cup {pk} |-> IF i = pk THEN row ELSE table[i]]

Remove(table, pks) == [i \in DOMAIN table \ pks |-> table[i]]

\* The key of a stored line, and StockTransactionDetail.objects.get(pk=pk)
Pk(row) == <<row.transaction, row.product>>
Get(db, pk) == CHOOSE row \in db.details : Pk(row) = pk
Stored(db, pk) == \E row \in db.details : Pk(row) = pk

\* Model.save() of a loaded Product instance: the row is overwritten with
\* the instance's field values
ProductSave(db, pk, obj) == [db EXCEPT !.products = Insert(db.products, pk, obj)]

\* Result of a block of code that may raise
\* (at: the position of the submitted line that raised, 0 when not a line)
Ok(db) == [db |-> db, err |-> "none", at |-> 0]
Raise(db, e) == [db |-> db, err |-> e, at |-> 0]

\* with transaction.atomic(): commit the block's writes, or on an exception
\* discard them and let the exception propagate
db_transaction_atomic_NoRollback(before, r) == r
db_transaction_atomic(before, r) ==
    IF r.err = "none" THEN r ELSE [r EXCEPT !.db = before]

transaction_atomic_NoRollback(before, r) == r
transaction_atomic(before, r) ==
    IF r.err = "none" THEN r ELSE [r EXCEPT !.db = before]

\* ------------------------------------------------- StockTransactionDetail
\* A detail instance in memory: pk (None when new), its column values, and
\* the related Product object when it has been loaded (self.product cached
\* with the field values it had when it was read).
Instance(pk, transaction, product, quantity, loaded, obj) ==
    [pk |-> pk, transaction |-> transaction, product |-> product,
     quantity |-> quantity, loaded |-> loaded, product_obj |-> obj]

NoObj == [current_stock |-> DefaultStock]

\* (mutant: validate_unique left out)
full_clean_NoUnique(db, self) ==
    IF self.product \notin DOMAIN db.products THEN "NotFound"
    ELSE IF self.quantity <= 0 THEN "InvalidQuantity"
    ELSE "none"

\* (mutant: clean() left out)
full_clean_NoQuantity(db, self) ==
    IF self.product \notin DOMAIN db.products THEN "NotFound"
    ELSE IF \E row \in db.details :
                /\ Pk(row) # self.pk
                /\ row.transaction = self.transaction
                /\ row.product = self.product
         THEN "DuplicateLineProduct"
    ELSE "none"

\* full_clean(): clean_fields (the product row exists), clean (quantity > 0),
\* validate_unique (unique_together transaction, product)
full_clean(db, self) ==
    IF self.product \notin DOMAIN db.products THEN "NotFound"
    ELSE IF self.quantity <= 0 THEN "InvalidQuantity"
    ELSE IF \E row \in db.details :
                /\ Pk(row) # self.pk
                /\ row.transaction = self.transaction
                /\ row.product = self.product
         THEN "DuplicateLineProduct"
    ELSE "none"

\* (mutant: the stored line's change is reverted on the instance's product
\* instead of the stored line's product)
RevertOld_OnNewProduct(db, self) ==
    IF self.pk # None
    THEN LET old_instance == Get(db, self.pk)
             new_product == db.products[self.product]
             stock == IF db.transactions[old_instance.transaction].transaction_type = "IN"
                      THEN new_product.current_stock - old_instance.quantity
                      ELSE new_product.current_stock + old_instance.quantity
         IN ProductSave(db, self.product,
                        [new_product EXCEPT !.current_stock = stock])
    ELSE db

\* save(), lines 83-89: revert the stock change of the stored line.
\* old_instance and old_instance.product are read from the store here.
RevertOld(db, self) ==
    IF self.pk # None
    THEN LET old_instance == Get(db, self.pk)
             old_product == db.products[old_instance.product]
             stock == IF db.transactions[old_instance.transaction].transaction_type = "IN"
                      THEN old_product.current_stock - old_instance.quantity
                      ELSE old_product.current_stock + old_instance.quantity
         IN ProductSave(db, old_instance.product,
                        [old_product EXCEPT !.current_stock = stock])
    ELSE db

\* self.product: the cached object if the instance carries one, otherwise a
\* read of the store at the moment of the access
RelatedProduct(db, self) ==
    IF self.loaded THEN self.product_obj ELSE db.products[self.product]

\* (mutant: the sufficiency check of an OUT line left out)
ApplyNew_NoCheck(db, self) ==
    LET product == IF self.loaded THEN self.product_obj ELSE db.products[self.product]
        type == db.transactions[self.transaction].transaction_type
        stored == IF self.pk # None THEN {Get(db, self.pk)} ELSE {}
        row == [transaction |-> self.transaction, product |-> self.product,
                quantity |-> self.quantity]
        stock == IF type = "IN" THEN product.current_stock + self.quantity
                 ELSE product.current_stock - self.quantity
    IN Ok([ProductSave(db, self.product, [product EXCEPT !.current_stock = stock])
              EXCEPT !.details = (db.details \ stored) \cup {row}])

\* save(), lines 91-101: apply the new stock change, save product and line
ApplyNew(db, self) ==
    LET product == RelatedProduct(db, self)
        type == db.transactions[self.transaction].transaction_type
        stored == IF self.pk # None THEN {Get(db, self.pk)} ELSE {}
        row == [transaction |-> self.transaction, product |-> self.product,
                quantity |-> self.quantity]
        stock == IF type = "IN" THEN product.current_stock + self.quantity
                 ELSE IF type = "OUT" THEN product.current_stock - self.quantity
                 ELSE product.current_stock
    IN IF type = "OUT" /\ product.current_stock < self.quantity
       THEN Raise(db, "InsufficientStock")
       ELSE Ok([ProductSave(db, self.product, [product EXCEPT !.current_stock = stock])
                   EXCEPT !.details = (db.details \ stored) \cup {row}])

\* StockTransactionDetail.save
DetailSave(db, self) ==
    LET e == full_clean(db, self)
    IN IF e # "none" THEN Raise(db, e)
       ELSE db_transaction_atomic(db, ApplyNew(RevertOld(db, self), self))

\* (mutant: the line is deleted and the stock change is not reverted)
DetailDelete_NoRevert(db, self) ==
    Ok([db EXCEPT !.details = db.details \ {Get(db, self.pk)}])

\* StockTransactionDetail.delete
DetailDelete(db, self) ==
    LET product == RelatedProduct(db, self)
        stock == IF db.transactions[self.transaction].transaction_type = "IN"
                 THEN product.current_stock - self.quantity
                 ELSE product.current_stock + self.quantity
    IN db_transaction_atomic(db,
          Ok([ProductSave(db, self.product, [product EXCEPT !.current_stock = stock])
                 EXCEPT !.details = db.details \ {Get(db, self.pk)}]))

\* ------------------------------------------- StockTransactionSerializer
\* A submitted line: [product |-> id, quantity |-> n]
LineInputs == [product : ProductIds, quantity : Quantities]
Submissions == UNION {[1..n -> LineInputs] : n \in 0..MaxLines}
\* the submissions of requests that are served concurrently
ConcSubmissions == UNION {[1..n -> LineInputs] : n \in 0..MaxConcLines}

\* transaction_code is unique=True: a stored transaction holds the code.
\* (mutant: the column is not unique)
CodeInUse_Never(db, code) == FALSE
CodeInUse(db, code) ==
    \E t \in DOMAIN db.transactions : db.transactions[t].transaction_code = code

\* serializer.is_valid(): UniqueValidator of transaction_code, and every
\* line's product pk resolved against the products table
is_valid(db, code, lines) ==
    IF CodeInUse(db, code)
    THEN "DuplicateTransactionCode"
    ELSE IF \E k \in 1..Len(lines) : lines[k].product \notin DOMAIN db.products
    THEN "NotFound"
    ELSE "none"

\* validated_data['details'][k]['product']: the Product objects that
\* PrimaryKeyRelatedField read while validating, one per line
ValidatedObjects(db, lines) ==
    [k \in 1..Len(lines) |-> db.products[lines[k].product]]

\* create(), lines 57-59: StockTransactionDetail.objects.create for each
\* line in order; the first exception ends the loop
RECURSIVE CreateLines(_, _, _, _, _)
CreateLines(db, tx, lines, objs, k) ==
    IF k > Len(lines) THEN Ok(db)
    ELSE LET r == DetailSave(db, Instance(None, tx, lines[k].product,
                                          lines[k].quantity, TRUE, objs[k]))
         IN IF r.err # "none" THEN [r EXCEPT !.at = k]
            ELSE CreateLines(r.db, tx, lines, objs, k + 1)

\* create(), lines 52-59: the atomic block.  The unique index of
\* transaction_code refuses the header's insert when the code is stored.
CreateBlock(db, code, type, lines, objs) ==
    IF CodeInUse(db, code)
    THEN Raise(db, "DuplicateTransactionCode")
    ELSE LET tx == FreshId(TxIdSpace, DOMAIN db.transactions)
             header == [transaction_code |-> code, transaction_type |-> type]
         IN CreateLines([db EXCEPT !.transactions = Insert(db.transactions, tx, header)],
                        tx, lines, objs, 1)

\* (mutant: a submission without lines is not refused)
create_NoEmptyCheck(db, code, type, lines, objs) ==
    transaction_atomic(db, CreateBlock(db, code, type, lines, objs))

\* StockTransactionSerializer.create
create(db, code, type, lines, objs) ==
    IF lines = <<>> THEN Raise(db, "EmptyTransaction")
    ELSE transaction_atomic(db, CreateBlock(db, code, type, lines, objs))

\* StockTransactionViewSet.create: is_valid(raise_exception=True), then
\* perform_create -> serializer.save() -> create(); an exception of either
\* becomes a 400 response
ViewCreate(db, code, type, lines) ==
    LET e == is_valid(db, code, lines)
    IN IF e # "none" THEN Raise(db, e)
       ELSE create(db, code, type, lines, ValidatedObjects(db, lines))

\* ------------------------------------------------------------ the actions
\* last: the operation called last, the error it raised ("none" when it
\* succeeded), the position of the submitted line that raised, and for a
\* transaction that was created the key of its first line and the stock
\* that line's product had before the submission
NoLast == [op |-> "init", err |-> "none", at |-> 0, line |-> None, pre |-> 0]

Did(op, err) == [NoLast EXCEPT !.op = op, !.err = err]

InRange(db) ==
    /\ \A p \in DOMAIN db.products : db.products[p].current_stock \in Stocks
    /\ DOMAIN db.transactions \subseteq TxIds

Commit(db) ==
    /\ InRange(db)
    /\ products' = db.products
    /\ transactions' = db.transactions
    /\ details' = db.details

\* A request: nothing in progress, or validated (is_valid() has returned and
\* validated_data holds the Product objects it read) and not yet created
Idle == [pc |-> "idle", code |-> "", type |-> "", lines |-> <<>>, objs |-> <<>>]

Init ==
    /\ products = <<>>
    /\ transactions = <<>>
    /\ details = {}
    /\ last = NoLast
    /\ reqs = [r \in Requests |-> Idle]

\* POST /api/products/ (ProductViewSet, ProductSerializer): current_stock is
\* a writable field of the serializer, DefaultStock when left out
CreateProduct(current_stock) ==
    /\ DOMAIN products # ProductIds
    /\ products' = Insert(products, FreshId(ProductIds, DOMAIN products),
                          [current_stock |-> current_stock])
    /\ last' = Did("createProduct", "none")
    /\ UNCHANGED <<transactions, details, reqs>>

\* PUT/PATCH /api/products/<id>/ (ProductViewSet, ProductSerializer)
UpdateProduct(p, current_stock) ==
    /\ p \in DOMAIN products
    /\ products' = [products EXCEPT ![p].current_stock = current_stock]
    /\ last' = Did("updateProduct", "none")
    /\ UNCHANGED <<transactions, details, reqs>>

\* POST /api/transactions/ (StockTransactionViewSet.create)
\* (with MaxTx transactions stored, only a submission under an unused code
\* is explored: it is kept if it fails and is rolled back)
CreateTransaction(code, type, lines) ==
    /\ DOMAIN transactions # TxIds \/ ~CodeInUse(Store, code)
    /\ \E r \in {ViewCreate(Store, code, type, lines)} :
          /\ Commit(r.db)
          /\ last' = IF r.err = "none"
                     THEN [Did("createTransaction", r.err) EXCEPT
                             !.line = <<FreshId(TxIds, DOMAIN transactions),
                                        lines[1].product>>,
                             !.pre = products[lines[1].product].current_stock]
                     ELSE [Did("createTransaction", r.err) EXCEPT !.at = r.at]
    /\ UNCHANGED reqs

\* updateTransactionLine: save() of a stored line whose product and/or
\* quantity the caller has set.  loaded: the caller's instance carries its
\* Product object (assigned, prefetched or accessed before save()).
UpdateTransactionLine(pk, p, quantity, loaded) ==
    /\ Stored(Store, pk)
    /\ loaded => p \in DOMAIN products
    /\ \E r \in {DetailSave(Store, Instance(pk, pk[1], p, quantity, loaded,
                                          IF loaded THEN products[p] ELSE NoObj))} :
          /\ Commit(r.db)
          /\ last' = Did("updateTransactionLine", r.err)
    /\ UNCHANGED reqs

\* deleteTransactionLine: delete() of a stored line
DeleteTransactionLine(pk) ==
    /\ Stored(Store, pk)
    /\ \E row \in {Get(Store, pk)} :
       \E r \in {DetailDelete(Store, Instance(pk, row.transaction, row.product,
                                              row.quantity, FALSE, NoObj))} :
          /\ Commit(r.db)
          /\ last' = [Did("deleteTransactionLine", r.err) EXCEPT
                        !.line = IF last.op = "createTransaction" /\ last.line = pk
                                 THEN pk ELSE None]
    /\ UNCHANGED reqs

\* DELETE /api/transactions/<id>/ (ModelViewSet.destroy): the header is
\* deleted and on_delete=CASCADE deletes its lines in the store; a cascade
\* does not call StockTransactionDetail.delete
DeleteTransaction(tx) ==
    /\ tx \in DOMAIN transactions
    /\ transactions' = Remove(transactions, {tx})
    /\ details' = {row \in details : row.transaction # tx}
    /\ last' = Did("deleteTransaction", "none")
    /\ UNCHANGED <<products, reqs>>

\* (mutant: a product is deleted although lines reference it)
DeleteProduct_NoProtect(p) ==
    /\ p \in DOMAIN products
    /\ products' = Remove(products, {p})
    /\ last' = Did("deleteProduct", "none")
    /\ UNCHANGED <<transactions, details, reqs>>

\* DELETE /api/products/<id>/ (ModelViewSet.destroy): on_delete=PROTECT of
\* StockTransactionDetail.product raises ProtectedError when a line
\* references the product, before anything is deleted.  (The id of a deleted
\* product is handed out again; nothing stored refers to it.)
DeleteProduct(p) ==
    /\ p \in DOMAIN products
    /\ IF \E row \in details : row.product = p
       THEN /\ last' = Did("deleteProduct", "ProtectedError")
            /\ UNCHANGED products
       ELSE /\ products' = Remove(products, {p})
            /\ last' = Did("deleteProduct", "none")
    /\ UNCHANGED <<transactions, details, reqs>>

\* PATCH /api/transactions/<id>/ with a transaction_type
\* (ModelViewSet.partial_update, ModelSerializer.update): the header's
\* column is set and saved; no line is saved and no stock is touched
UpdateTransaction(tx, type) ==
    /\ tx \in DOMAIN transactions
    /\ transactions' = [transactions EXCEPT ![tx].transaction_type = type]
    /\ last' = Did("updateTransaction", "none")
    /\ UNCHANGED <<products, details, reqs>>

\* POST /api/transactions/ handled by request r, first half
\* (StockTransactionViewSet.create up to is_valid): the submission is
\* validated against the store and the lines' Product objects are read.
\* No store transaction is open yet.
Validate(r, code, type, lines) ==
    /\ reqs[r].pc = "idle"
    /\ LET e == is_valid(Store, code, lines)
       IN IF e # "none"
          THEN /\ last' = Did("createTransaction", e)
               /\ UNCHANGED reqs
          ELSE /\ reqs' = [reqs EXCEPT ![r] =
                              [pc |-> "validated", code |-> code, type |-> type,
                               lines |-> lines,
                               objs |-> ValidatedObjects(Store, lines)]]
               /\ UNCHANGED last
    /\ UNCHANGED Tables

\* second half (perform_create): serializer.create() runs its atomic block
\* on the store as it is now, with the objects read by Validate, and
\* commits or rolls back.  The block is taken as one step: the store
\* isolates it from the other request completely.
Perform(r) ==
    /\ reqs[r].pc = "validated"
    /\ \E res \in {create(Store, reqs[r].code, reqs[r].type,
                           reqs[r].lines, reqs[r].objs)} :
          /\ Commit(res.db)
          /\ last' = [Did("createTransaction", res.err) EXCEPT !.at = res.at]
    /\ reqs' = [reqs EXCEPT ![r] = Idle]

\* Requests served concurrently (one worker per request)
NextConc ==
    \/ CreateProduct(DefaultStock)
    \/ \E r \in Requests, code \in Codes, type \in TRANSACTION_TYPES,
          lines \in ConcSubmissions : Validate(r, code, type, lines)
    \/ \E r \in Requests : Perform(r)

SpecConc == Init /\ [][NextConc]_vars

\* Requests served concurrently on products created with a stock value
NextOversell ==
    \/ \E s \in 0..MaxStock : CreateProduct(s)
    \/ \E r \in Requests, code \in Codes, type \in TRANSACTION_TYPES,
          lines \in ConcSubmissions : Validate(r, code, type, lines)
    \/ \E r \in Requests : Perform(r)

SpecOversell == Init /\ [][NextOversell]_vars

\* Receipts and dispatches of one line each, under three codes
TraceCodes == {"GRN-1", "DO-1", "DO-2"}

NextTrace ==
    \/ CreateProduct(DefaultStock)
    \/ \E code \in TraceCodes, type \in TRANSACTION_TYPES, lines \in ConcSubmissions :
          CreateTransaction(code, type, lines)

SpecTrace == Init /\ [][NextTrace]_vars

\* The ledger operations on submissions of one line, and the deletion of
\* products
NextCatalog ==
    \/ CreateProduct(DefaultStock)
    \/ \E p \in ProductIds : DeleteProduct(p)
    \/ \E code \in Codes, type \in TRANSACTION_TYPES, lines \in ConcSubmissions :
          CreateTransaction(code, type, lines)
    \/ \E pk \in DetailKeys, p \in ProductIds, q \in Quantities, loaded \in BOOLEAN :
          UpdateTransactionLine(pk, p, q, loaded)
    \/ \E pk \in DetailKeys : DeleteTransactionLine(pk)
    \/ \E tx \in TxIds : DeleteTransaction(tx)

SpecCatalog == Init /\ [][NextCatalog]_vars

\* The ledger operations, every update moving its line to another product
NextReassign ==
    \/ CreateProduct(DefaultStock)
    \/ \E code \in Codes, type \in TRANSACTION_TYPES, lines \in Submissions :
          CreateTransaction(code, type, lines)
    \/ \E pk \in DetailKeys, p \in ProductIds, q \in Quantities, loaded \in BOOLEAN :
          p # pk[2] /\ UpdateTransactionLine(pk, p, q, loaded)
    \/ \E pk \in DetailKeys : DeleteTransactionLine(pk)

SpecReassign == Init /\ [][NextReassign]_vars

\* The ledger operations and the update of a transaction's header
NextHeader ==
    \/ CreateProduct(DefaultStock)
    \/ \E code \in Codes, type \in TRANSACTION_TYPES, lines \in Submissions :
          CreateTransaction(code, type, lines)
    \/ \E tx \in TxIds, type \in TRANSACTION_TYPES : UpdateTransaction(tx, type)
    \/ \E pk \in DetailKeys : DeleteTransactionLine(pk)

SpecHeader == Init /\ [][NextHeader]_vars

\* The ledger operations, with products created without a stock value
NextLedger ==
    \/ CreateProduct(DefaultStock)
    \/ \E code \in Codes, type \in TRANSACTION_TYPES, lines \in Submissions :
          CreateTransaction(code, type, lines)
    \/ \E pk \in DetailKeys, p \in ProductIds, q \in Quantities, loaded \in BOOLEAN :
          UpdateTransactionLine(pk, p, q, loaded)
    \/ \E pk \in DetailKeys : DeleteTransactionLine(pk)
    \/ \E tx \in TxIds : DeleteTransaction(tx)

SpecLedger == Init /\ [][NextLedger]_vars

\* Every operation the program exposes
Next ==
    \/ \E s \in Stocks : CreateProduct(s)
    \/ \E p \in ProductIds, s \in Stocks : UpdateProduct(p, s)
    \/ \E code \in Codes, type \in TRANSACTION_TYPES, lines \in Submissions :
          CreateTransaction(code, type, lines)
    \/ \E pk \in DetailKeys, p \in ProductIds, q \in Quantities, loaded \in BOOLEAN :
          UpdateTransactionLine(pk, p, q, loaded)
    \/ \E pk \in DetailKeys : DeleteTransactionLine(pk)
    \/ \E tx \in TxIds : DeleteTransaction(tx)

Spec == Init /\ [][Next]_vars

\* ------------------------------------------------------------- properties
TypeOf(tx) == transactions[tx].transaction_type

\* Signed effect on product p of the stored lines in rows: + quantity for a
\* line of an IN transaction, - quantity for a line of an OUT transaction
RECURSIVE Net(_, _)
Net(rows, p) ==
    IF rows = {} THEN 0
    ELSE LET row == CHOOSE r \in rows : TRUE
             signed == IF row.product # p THEN 0
                       ELSE IF TypeOf(row.transaction) = "IN" THEN row.quantity
                       ELSE 0 - row.quantity
         IN signed + Net(rows \ {row}, p)

\* C1: ledger invariant.  After any sequence of ledger operations, every
\* product's current_stock equals the quantities of its stored IN lines
\* minus the quantities of its stored OUT lines.
C1_LedgerInvariant ==
    \A p \in DOMAIN products : products[p].current_stock = Net(details, p)

\* C2: non-negative stock.  After any sequence of ledger operations every
\* product has current_stock >= 0.
C2_NonNegativeStock ==
    \A p \in DOMAIN products : products[p].current_stock >= 0

\* C3: create-transaction atomicity.  A createTransaction that fails, at any
\* line, leaves no header, no detail line and no stock change behind: the
\* three tables are as they were before the submission.
C3_CreateAtomicity ==
    [][(last'.op = "createTransaction" /\ last'.err # "none")
          => UNCHANGED Tables]_vars

\* a submission whose first line was applied and whose second line was
\* refused for insufficient stock, in a store whose stocks match its lines
C3_Witness ==
    /\ last.op = "createTransaction"
    /\ last.err = "InsufficientStock"
    /\ last.at = 2
    /\ details # {}
    /\ C1_LedgerInvariant

\* C4: edit-reversal correctness.  Saving a stored line of an IN transaction
\* with the same product and quantity q leaves the product's stock at its
\* value before the edit, minus the old quantity, plus q, whether or not the
\* instance carries its Product object.
C4_EditReversal ==
    [][\A pk \in DetailKeys, q \in Quantities, loaded \in BOOLEAN :
          (/\ last'.op = "updateTransactionLine"
           /\ last'.err = "none"
           /\ UpdateTransactionLine(pk, pk[2], q, loaded)
           /\ TypeOf(pk[1]) = "IN")
          => products'[pk[2]].current_stock =
                products[pk[2]].current_stock - Get(Store, pk).quantity + q]_vars

\* C5: deleting a transaction removes its lines and reverses each of them:
\* every product's stock is its value before minus the net effect of the
\* deleted lines.
C5_DeleteTransactionReverses ==
    [][\A tx \in TxIds :
          (last'.op = "deleteTransaction" /\ DeleteTransaction(tx))
          => /\ \A row \in details' : row.transaction # tx
             /\ \A p \in DOMAIN products :
                   products'[p].current_stock =
                      products[p].current_stock
                         - Net({row \in details : row.transaction = tx}, p)]_vars

\* C6: insufficient-stock rejection.  In every reachable state, for every
\* submission of new lines of an OUT transaction (valid quantities, distinct
\* existing products, unused code): if some line asks for more than its
\* product's stock s, the submission fails with an insufficient-stock error
\* at the first such line, no line is stored and every stock is unchanged;
\* otherwise it succeeds, every line is stored and every line's product has
\* stock s - q.
C6_InsufficientStockRejection ==
    \A code \in Codes, lines \in Submissions :
       (/\ DOMAIN transactions # TxIds
        /\ lines # <<>>
        /\ is_valid(Store, code, lines) = "none"
        /\ \A k \in 1..Len(lines) : lines[k].quantity > 0
        /\ \A j, k \in 1..Len(lines) : lines[j].product = lines[k].product => j = k)
       => \A r \in {ViewCreate(Store, code, "OUT", lines)} :
          LET short == {k \in 1..Len(lines) :
                           products[lines[k].product].current_stock < lines[k].quantity}
              tx == FreshId(TxIds, DOMAIN transactions)
          IN IF short # {}
             THEN /\ r.err = "InsufficientStock"
                  /\ r.at = Min(short)
                  /\ r.db = Store
             ELSE /\ r.err = "none"
                  /\ \A k \in 1..Len(lines) :
                       /\ r.db.products[lines[k].product].current_stock =
                             products[lines[k].product].current_stock - lines[k].quantity
                       /\ [transaction |-> tx, product |-> lines[k].product,
                           quantity |-> lines[k].quantity] \in r.db.details

\* an OUT line refused although the product has stock, only less than asked
C6_Witness ==
    /\ last.op = "createTransaction"
    /\ last.err = "InsufficientStock"
    /\ last.at = 1
    /\ \E p \in DOMAIN products : products[p].current_stock > 0

\* C7: no lost updates under concurrency.  Whenever no request is in
\* progress, the ledger invariant holds: the stock of every product is its
\* initial value plus the signed quantities of all committed lines, as if
\* the requests had run one after the other.
C7_NoLostUpdate ==
    (\A r \in Requests : reqs[r].pc = "idle") => C1_LedgerInvariant

\* C8: replace-line atomicity.  An update of a stored line that fails leaves
\* the three tables as they were: the reversal of the old line written
\* before the failure is not kept.
C8_ReplaceAtomicity ==
    [][(last'.op = "updateTransactionLine" /\ last'.err # "none")
          => UNCHANGED Tables]_vars

\* an update refused at the re-apply step, after the reversal was written
C8_Witness ==
    /\ last.op = "updateTransactionLine"
    /\ last.err = "InsufficientStock"
    /\ C1_LedgerInvariant

\* C9: stock is changed only by the ledger.  Creating or updating a product
\* leaves every existing product's stock alone, a new product starts with
\* stock 0, and stock changes only in a detail-line operation.
C9_StockOnlyByLedger ==
    [][/\ last'.op \in {"createProduct", "updateProduct"}
          => /\ \A p \in DOMAIN products : products'[p] = products[p]
             /\ \A p \in DOMAIN products' \ DOMAIN products :
                   products'[p].current_stock = 0
       /\ (\E p \in DOMAIN products :
              p \in DOMAIN products' /\ products'[p] # products[p])
          => last'.op \in {"createTransaction", "applyLine",
                           "updateTransactionLine", "deleteTransactionLine"}]_vars

\* C10: reversal round trip.  A line applied by a createTransaction and
\* removed by the very next operation leaves its product's stock at the
\* value it had before the line was applied, and the line is no longer
\* stored.
C10_ReversalRoundTrip ==
    [][(/\ last.op = "createTransaction" /\ last.err = "none"
        /\ last'.op = "deleteTransactionLine" /\ last'.line = last.line)
          => /\ products'[last.line[2]].current_stock = last.pre
             /\ \A row \in details' : Pk(row) # last.line]_vars

\* a line removed right after it was applied
C10_Witness ==
    /\ last.op = "deleteTransactionLine"
    /\ last.line # None
    /\ C1_LedgerInvariant
    /\ C2_NonNegativeStock

\* C11: duplicate-in-submission rejection.  A submission whose lines name
\* the same product twice fails and leaves the store as it was: no header,
\* no line (the first line for that product included) and no stock change.
\* In every reachable state no two stored lines have the same transaction
\* and product.
C11_DuplicateInSubmission ==
    /\ \A r1, r2 \in details : Pk(r1) = Pk(r2) => r1 = r2
    /\ \A code \in Codes, type \in TRANSACTION_TYPES, lines \in Submissions :
          (/\ DOMAIN transactions # TxIds
           /\ \E j, k \in 1..Len(lines) :
                 j # k /\ lines[j].product = lines[k].product)
          => \A r \in {ViewCreate(Store, code, type, lines)} :
                r.err # "none" /\ r.db = Store

\* a submission refused at its second line because the first line, already
\* applied, names the same product
C11_Witness ==
    /\ last.op = "createTransaction"
    /\ last.err = "DuplicateLineProduct"
    /\ last.at = 2

\* C12: empty-transaction rejection.  A submission with an empty list of
\* lines fails and leaves the store as it was (no header, no stock change);
\* a transaction that has just been created has at least one stored line.
C12_EmptyTransaction ==
    /\ \A code \in Codes, type \in TRANSACTION_TYPES :
          DOMAIN transactions # TxIds
          => \A r \in {ViewCreate(Store, code, type, <<>>)} :
                r.err # "none" /\ r.db = Store
    /\ (last.op = "createTransaction" /\ last.err = "none")
          => \E row \in details : Pk(row) = last.line

\* a submission without lines refused by create()
C12_Witness ==
    /\ last.op = "createTransaction"
    /\ last.err = "EmptyTransaction"

\* C13: protected product reference.  After every step every stored line
\* references a stored product; the deletion of a product that a stored line
\* references is refused and leaves products, transactions and lines as
\* they were.
C13_ProtectedProduct ==
    [][/\ \A row \in details' : row.product \in DOMAIN products'
       /\ \A p \in ProductIds :
             (/\ last'.op = "deleteProduct"
              /\ DeleteProduct(p)
              /\ \E row \in details : row.product = p)
             => (last'.err = "ProtectedError" /\ UNCHANGED Tables)]_vars

\* the deletion of a referenced product, refused
C13_Witness ==
    /\ last.op = "deleteProduct"
    /\ last.err = "ProtectedError"
    /\ details # {}

\* C14: positive quantity.  Every stored line has quantity > 0.  Saving a
\* stored line with a quantity <= 0 fails in validation (full_clean, before
\* the atomic block that touches stock) and a submission with such a line
\* fails; both leave every stock and every stored line as they were.
C14_PositiveQuantity ==
    /\ \A row \in details : row.quantity > 0
    /\ \A pk \in DetailKeys, p \in ProductIds, q \in Quantities, loaded \in BOOLEAN :
          (Stored(Store, pk) /\ q <= 0 /\ (loaded => p \in DOMAIN products))
          => LET obj == IF loaded THEN products[p] ELSE NoObj
                 self == Instance(pk, pk[1], p, q, loaded, obj)
                 r == DetailSave(Store, self)
             IN /\ r.err = full_clean(Store, self)
                /\ r.err \in {"NotFound", "InvalidQuantity"}
                /\ r.db = Store
    /\ \A code \in Codes, type \in TRANSACTION_TYPES, lines \in Submissions :
          (/\ DOMAIN transactions # TxIds
           /\ \E k \in 1..Len(lines) : lines[k].quantity <= 0)
          => \A r \in {ViewCreate(Store, code, type, lines)} :
                r.err # "none" /\ r.db = Store

\* the update of a stored line to quantity 0, refused in validation
C14_Witness ==
    /\ last.op = "updateTransactionLine"
    /\ last.err = "InvalidQuantity"
    /\ details # {}

\* quantities of the end-to-end trace: the 50, 20 and 999 of the scenario,
\* and quantities for which the trace stays within the stocks explored
TraceQuantities == {1, 2, 20, 50, 999}

\* C15: end-to-end trace.  From a product with stock 0 and no transaction:
\* creating IN transaction GRN-1 with a line of q_in (50) for the product
\* gives stock q_in; then creating OUT transaction DO-1 with a line of
\* q_out (20) gives stock q_in - q_out (30); then OUT transaction DO-2 with a
\* line of more than that (999) is rejected, DO-2 is not stored and the stock
\* stays q_in - q_out.  A store reached by the first two steps holds that
\* stock.
C15_EndToEnd ==
    /\ \A p \in DOMAIN products, q_in, q_out, q_over \in TraceQuantities :
          (/\ transactions = <<>>
           /\ products[p].current_stock = 0
           /\ q_out <= q_in
           /\ q_over > q_in - q_out)
          => LET line(q) == <<[product |-> p, quantity |-> q]>>
                 r1 == ViewCreate(Store, "GRN-1", "IN", line(q_in))
                 r2 == ViewCreate(r1.db, "DO-1", "OUT", line(q_out))
                 r3 == ViewCreate(r2.db, "DO-2", "OUT", line(q_over))
             IN /\ r1.err = "none"
                /\ r1.db.products[p].current_stock = q_in
                /\ r2.err = "none"
                /\ r2.db.products[p].current_stock = q_in - q_out
                /\ r3.err = "InsufficientStock"
                /\ r3.db = r2.db
                /\ \A t \in DOMAIN r3.db.transactions :
                      r3.db.transactions[t].transaction_code # "DO-2"
    /\ \A p \in DOMAIN products, q_in, q_out \in 1..MaxQty :
          (/\ DOMAIN transactions = {1, 2}
           /\ transactions[1] = [transaction_code |-> "GRN-1", transaction_type |-> "IN"]
           /\ transactions[2] = [transaction_code |-> "DO-1", transaction_type |-> "OUT"]
           /\ {row \in details : row.product = p} =
                 {[transaction |-> 1, product |-> p, quantity |-> q_in],
                  [transaction |-> 2, product |-> p, quantity |-> q_out]})
          => products[p].current_stock = q_in - q_out

\* the trace with q_in = 2, q_out = 1: GRN-1 and DO-1 are stored, the stock
\* is 1 and the third submission has just been refused
C15_Witness ==
    /\ DOMAIN transactions = {1, 2}
    /\ transactions[1] = [transaction_code |-> "GRN-1", transaction_type |-> "IN"]
    /\ transactions[2] = [transaction_code |-> "DO-1", transaction_type |-> "OUT"]
    /\ details = {[transaction |-> 1, product |-> 1, quantity |-> 2],
                  [transaction |-> 2, product |-> 1, quantity |-> 1]}
    /\ products[1].current_stock = 1
    /\ last.op = "createTransaction"
    /\ last.err = "InsufficientStock"

\* C16: transaction-code uniqueness.  No two stored transactions have the
\* same transaction_code.  A submission under the code of a stored
\* transaction fails and leaves the store as it was; a submission under an
\* unused code that fails leaves the code unused, and a valid submission
\* under that code then succeeds.
C16_CodeUniqueness ==
    /\ \A t1, t2 \in DOMAIN transactions :
          transactions[t1].transaction_code = transactions[t2].transaction_code
          => t1 = t2
    /\ \A code \in Codes, type \in TRANSACTION_TYPES, lines \in Submissions :
          \A r \in {ViewCreate(Store, code, type, lines)} :
          LET stored(db) == {db.transactions[t].transaction_code :
                                t \in DOMAIN db.transactions}
          IN IF code \in stored(Store)
             THEN r.err = "DuplicateTransactionCode" /\ r.db = Store
             ELSE r.err # "none"
                  => /\ code \notin stored(r.db)
                     /\ \A p \in DOMAIN products :
                           ViewCreate(r.db, code, "IN",
                                      <<[product |-> p, quantity |-> 1]>>).err = "none"

\* a submission refused because a stored transaction has its code
C16_Witness ==
    /\ last.op = "createTransaction"
    /\ last.err = "DuplicateTransactionCode"
    /\ transactions # <<>>

\* C17: replace-line on an OUT line checks sufficiency against the stock
\* after the old line's reversal.  Saving a stored line of an OUT transaction
\* with the same product and a quantity q_new > 0, the product's stock being
\* s and the stored quantity q_old: if s + q_old >= q_new the save succeeds
\* and the stock becomes s + q_old - q_new; otherwise it is refused as
\* insufficient and nothing changes.
C17_ReplaceOutSufficiency ==
    [][\A pk \in DetailKeys, q \in 1..MaxQty, loaded \in BOOLEAN :
          (/\ last'.op = "updateTransactionLine"
           /\ UpdateTransactionLine(pk, pk[2], q, loaded)
           /\ TypeOf(pk[1]) = "OUT")
          => LET s == products[pk[2]].current_stock
                 q_old == Get(Store, pk).quantity
             IN IF s + q_old >= q
                THEN /\ last'.err = "none"
                     /\ products'[pk[2]].current_stock = s + q_old - q
                ELSE /\ last'.err = "InsufficientStock"
                     /\ UNCHANGED Tables]_vars

\* the change a line of quantity q makes to its product's stock
Signed(type, q) == IF type = "IN" THEN q ELSE 0 - q

\* the store with one more product, which no line references
WithBystander(db, stock) ==
    [db EXCEPT !.products =
        Insert(db.products, MaxProducts + 1, [current_stock |-> stock])]

\* C18: product reassignment on edit.  Saving a stored line of product A
\* with another product B and quantity q > 0 (B stored, no line of the
\* transaction on B): an OUT line is refused as insufficient exactly when
\* B's stock is less than q, and nothing changes; otherwise stock(A) is its
\* old value minus the old line's signed effect, stock(B) its old value plus
\* the new line's signed effect, the line now names B, and no other
\* product's stock changes, whether or not the instance carries B's object.
C18_ProductReassignment ==
    \A pk \in DetailKeys, B \in ProductIds, q \in 1..MaxQty,
       loaded \in BOOLEAN, other \in Stocks :
       (/\ Stored(Store, pk)
        /\ B # pk[2]
        /\ B \in DOMAIN products
        /\ ~Stored(Store, <<pk[1], B>>))
       => LET A == pk[2]
              type == TypeOf(pk[1])
              old == Get(Store, pk)
              db == WithBystander(Store, other)
              obj == IF loaded THEN products[B] ELSE NoObj
              r == DetailSave(db, Instance(pk, pk[1], B, q, loaded, obj))
          IN IF type = "OUT" /\ products[B].current_stock < q
             THEN r.err = "InsufficientStock" /\ r.db = db
             ELSE /\ r.err = "none"
                  /\ r.db.products[A].current_stock =
                        products[A].current_stock - Signed(type, old.quantity)
                  /\ r.db.products[B].current_stock =
                        products[B].current_stock + Signed(type, q)
                  /\ \A o \in DOMAIN db.products \ {A, B} :
                        r.db.products[o] = db.products[o]
                  /\ DOMAIN r.db.products = DOMAIN db.products
                  /\ r.db.transactions = transactions
                  /\ r.db.details =
                        (details \ {old}) \cup
                           {[transaction |-> pk[1], product |-> B, quantity |-> q]}

\* a line has just been moved to another product
C18_Witness ==
    /\ last.op = "updateTransactionLine"
    /\ last.err = "none"
    /\ \E p \in DOMAIN products : products[p].current_stock # 0

\* C19: no overselling under concurrency.  Of two OUT submissions in
\* progress at the same time for a product with stock s, with quantities
\* q1 <= s, q2 <= s and q1 + q2 > s, at most one commits: the one whose
\* atomic block runs second finds the stock s - q1 < q2 and is refused.  So a
\* request never commits an OUT line whose quantity exceeds the stock its
\* product has in the store at that moment.
C19_NoOversell ==
    [][\A r \in Requests :
          (/\ last'.op = "createTransaction"
           /\ last'.err = "none"
           /\ Perform(r)
           /\ reqs[r].type = "OUT")
          => \A k \in 1..Len(reqs[r].lines) :
                products[reqs[r].lines[k].product].current_stock
                   >= reqs[r].lines[k].quantity]_vars

\* C20: reversal uses the direction the line was applied with.  The
\* transaction_type of a transaction that has stored lines never changes, or
\* the change keeps the ledger invariant (so that reverting a line later
\* with the transaction's type undoes what applying it did).
C20_ReversalDirection ==
    [][\A tx \in TxIds :
          (/\ last'.op = "updateTransaction"
           /\ tx \in DOMAIN transactions
           /\ transactions'[tx].transaction_type # transactions[tx].transaction_type
           /\ \E row \in details : row.transaction = tx)
          => (C1_LedgerInvariant => C1_LedgerInvariant')]_vars

====
